---- MODULE Spec2Model ----
(***************************************************************************)
(* Release-notes backend: the Express handler POST /api/query, the Mastra  *)
(* registry it looks the workflow up in, and the release-notes workflow    *)
(* (parse-commits, categorize-commits, enrich-features || enrich-fixes,    *)
(* draft-release-notes, branch(refine-notes | pass-through),               *)
(* finalize-output).                                                       *)
(*                                                                         *)
(* Strings the code inspects character by character (the query) are        *)
(* sequences of one-character strings; opaque texts (markdown, titles)     *)
(* are TLA+ strings.  A language-model call is a nondeterministic choice   *)
(* of a response: a transport error, a response that fails the zod schema  *)
(* handed to generateObject, or a schema-valid object.                     *)
(***************************************************************************)
EXTENDS Integers, Sequences, FiniteSets, TLC

VARIABLES
    req,        \* the body of the HTTP request being handled, or NoReq
    resp,       \* the HTTP response sent for req, or NoResp
    served,     \* number of requests the server has answered
    runs,       \* number of workflow runs created by the HTTP handler
    pc,         \* position of the workflow run
    init,       \* the run's initial input data (getInitData)
    data,       \* inputData of the next step: the previous step's output
    br,         \* the steps of the fork being run (parallel or branch), each
                \* pending, failed or succeeded with its output
    failure,    \* why the run failed, "" while it has not
    executed,   \* how many times each step's execute has run
    llmCalls,   \* how many language-model calls of each kind were issued
    classifierRequest   \* the commits the classifier was last asked about

vars == <<req, resp, served, runs, pc, init, data, br, failure, executed, llmCalls,
          classifierRequest>>

httpVars == <<req, resp, served, runs>>
runVars == <<pc, init, data, br, failure, executed, llmCalls, classifierRequest>>

(***************************************************************************)
(* Bounds of the model.                                                    *)
(***************************************************************************)
MaxLineFrags == 4   \* fragments in the first line of a parser input
MaxRestFrags == 4  \* fragments after the first line break of a parser input
MaxClassified == 3  \* commits handed to the categorizer on its own
MaxCommits == 2     \* commits in a classifier response of a whole run
MaxEnriched == 2    \* entries in an enrichment response
MaxServed == 2      \* requests the server answers in one behaviour
MaxBodyFrags == 3   \* fragments in a commitLog string sent to the server

(***************************************************************************)
(* Characters and strings.                                                 *)
(***************************************************************************)
UpperCase == <<"A","B","C","D","E","F","G","H","I","J","K","L","M",
               "N","O","P","Q","R","S","T","U","V","W","X","Y","Z">>
LowerCase == <<"a","b","c","d","e","f","g","h","i","j","k","l","m",
               "n","o","p","q","r","s","t","u","v","w","x","y","z">>

\* the canonical form the /i flag compares characters in
Lower(c) ==
    IF \E k \in 1..Len(UpperCase) : UpperCase[k] = c
    THEN LowerCase[CHOOSE k \in 1..Len(UpperCase) : UpperCase[k] = c]
    ELSE c

\* [a-f0-9] under /i
IsHex(c) == Lower(c) \in {"a","b","c","d","e","f","0","1","2","3","4","5","6","7","8","9"}

\* \s, and the characters String.prototype.trim removes
IsSpace(c) == c \in {" ", "\t", "\n", "\r"}

RECURSIVE Concat(_)
Concat(ss) == IF ss = <<>> THEN <<>> ELSE Head(ss) \o Concat(Tail(ss))

\* s.slice(i - 1): the characters of s from position i on
From(s, i) == IF i > Len(s) THEN <<>> ELSE SubSeq(s, i, Len(s))

\* does the literal lit occur in s at position i, compared under /i
LitAt(s, i, lit) ==
    /\ i + Len(lit) - 1 <= Len(s)
    /\ \A k \in 1..Len(lit) : Lower(s[i + k - 1]) = Lower(lit[k])

\* the first position >= i of s that does not satisfy the class (Len(s)+1 if none)
RECURSIVE SkipHex(_, _)
SkipHex(s, i) == IF i <= Len(s) /\ IsHex(s[i]) THEN SkipHex(s, i + 1) ELSE i

RECURSIVE SkipSpace(_, _)
SkipSpace(s, i) == IF i <= Len(s) /\ IsSpace(s[i]) THEN SkipSpace(s, i + 1) ELSE i

\* String.prototype.split("\n"): the pieces between the line breaks, at least one
RECURSIVE SplitFrom(_, _, _)
SplitFrom(s, i, cur) ==
    IF i > Len(s) THEN <<cur>>
    ELSE IF s[i] = "\n" THEN <<cur>> \o SplitFrom(s, i + 1, <<>>)
    ELSE SplitFrom(s, i + 1, Append(cur, s[i]))

Split(s) == SplitFrom(s, 1, <<>>)

\* Array.prototype.join("\n")
RECURSIVE Join(_)
Join(ls) ==
    IF ls = <<>> THEN <<>>
    ELSE IF Len(ls) = 1 THEN ls[1]
    ELSE ls[1] \o <<"\n">> \o Join(Tail(ls))

\* String.prototype.trim
RECURSIVE TrimEnd(_)
TrimEnd(s) == IF s # <<>> /\ IsSpace(s[Len(s)]) THEN TrimEnd(SubSeq(s, 1, Len(s) - 1)) ELSE s

Trim(s) == TrimEnd(From(s, SkipSpace(s, 1)))

(***************************************************************************)
(* Step 1, parse-commits: the pure part (the range and the instructions).  *)
(* The regular expression /commits?\s+([a-f0-9]+)\.\.([a-f0-9]+)/i is run  *)
(* the way a backtracking engine runs it: start positions left to right,   *)
(* every quantifier greedy, giving characters back when the rest fails.    *)
(***************************************************************************)
NoMatch == <<>>

KwCommit == <<"c","o","m","m","i","t">>
KwS == <<"s">>
DotDot == <<".",".">>
LabelText == <<"A","d","d","i","t","i","o","n","a","l"," ",
               "i","n","s","t","r","u","c","t","i","o","n","s",":">>
DefaultFrom == <<"H","E","A","D","~","1","2">>
DefaultTo == <<"H","E","A","D">>

\* ([a-f0-9]+)\.\.([a-f0-9]+) at q, the first group ending before e; e backs off to q+1
RECURSIVE HexPairUpTo(_, _, _)
HexPairUpTo(l, q, e) ==
    IF e <= q THEN NoMatch
    ELSE IF LitAt(l, e, DotDot) /\ SkipHex(l, e + 2) > e + 2
         THEN <<SubSeq(l, q, e - 1), SubSeq(l, e + 2, SkipHex(l, e + 2) - 1)>>
         ELSE HexPairUpTo(l, q, e - 1)

HexPair(l, q) == HexPairUpTo(l, q, SkipHex(l, q))

\* \s+ from p, the run ending before q; q backs off to p+1
RECURSIVE SpacesThenPair(_, _, _)
SpacesThenPair(l, p, q) ==
    IF q <= p THEN NoMatch
    ELSE IF HexPair(l, q) # NoMatch THEN HexPair(l, q)
    ELSE SpacesThenPair(l, p, q - 1)

AfterKeyword(l, p) == SpacesThenPair(l, p, SkipSpace(l, p))

\* the whole pattern anchored at i: commit, s? (taken first, dropped on failure)
MatchAt(l, i) ==
    IF ~LitAt(l, i, KwCommit) THEN NoMatch
    ELSE LET p == i + Len(KwCommit) IN
         IF LitAt(l, p, KwS) /\ AfterKeyword(l, p + 1) # NoMatch
         THEN AfterKeyword(l, p + 1)
         ELSE AfterKeyword(l, p)

\* String.prototype.match without /g: the match at the leftmost start, or null
RECURSIVE MatchFrom(_, _)
MatchFrom(l, i) ==
    IF i > Len(l) THEN NoMatch
    ELSE IF MatchAt(l, i) # NoMatch THEN MatchAt(l, i)
    ELSE MatchFrom(l, i + 1)

\* the pattern tried at the first character only, as if it began with ^
refMatchAnchored(l) == MatchAt(l, 1)

refMatch(l) == MatchFrom(l, 1)

\* the label removed without the white space that follows it
stripLabelOnly(s) ==
    IF LitAt(s, 1, LabelText) THEN From(s, Len(LabelText) + 1) ELSE s

\* .replace(/^Additional instructions:\s*/i, ""): one replacement, at the start only
stripLabel(s) ==
    IF LitAt(s, 1, LabelText) THEN From(s, SkipSpace(s, Len(LabelText) + 1)) ELSE s

\* lines 56-64: fromRef, toRef and instructions of a query
parseQuery(query) ==
    LET lines == Split(query)
        m == refMatch(lines[1])
    IN [fromRef |-> IF m # NoMatch THEN m[1] ELSE DefaultFrom,
        toRef |-> IF m # NoMatch THEN m[2] ELSE DefaultTo,
        instructions |-> Trim(stripLabel(Join(Tail(lines))))]

(***************************************************************************)
(* Data of the workflow.                                                   *)
(***************************************************************************)
\* commitSchema.type: the zod enum
CommitTypes == {"feat", "fix", "perf", "chore", "docs", "refactor", "test"}

\* the shas of REPO_COMMITS, the built-in list every classifier prompt embeds
REPO_COMMITS == <<"f59ffed", "c300d63", "718bf11", "efc056f", "34deabf", "3583104",
                  "cfab29e", "a23ebf4", "c41a2b0", "d5f451b", "dd8c5a2", "9f130dd">>

SeqsUpTo(S, n) == UNION {[1..k -> S] : k \in 0..n}

(***************************************************************************)
(* The language model.  generateObject resolves with an object that passed *)
(* the schema it was given, or rejects (transport error, or a response     *)
(* that does not match the schema); generateText resolves with a text or   *)
(* rejects.  Nothing but the shape of a resolved object is guaranteed.     *)
(***************************************************************************)
Resolved(obj) == [kind |-> "ok", object |-> obj]
Rejections == {[kind |-> "error", object |-> <<>>], [kind |-> "invalid", object |-> <<>>]}

\* results of a step inside a fork
Pending == [status |-> "pending", output |-> <<>>]
Failed == [status |-> "failed", output |-> <<>>]
Success(out) == [status |-> "success", output |-> out]

(***************************************************************************)
(* Step 2, categorize-commits.                                             *)
(***************************************************************************)
isFeat(c) == c.type = "feat"
isFix(c) == c.type = "fix"
isPerf(c) == c.type = "perf"
\* a maintenance bucket that forgets the test commits
isMaintenanceNoTest(c) == c.type \in {"chore", "docs", "refactor"}

isMaintenance(c) == c.type \in {"chore", "docs", "refactor", "test"}
isBreaking(c) == c.breaking

\* commits.some((c) => c.breaking)
hasBreaking(commits) == \E k \in 1..Len(commits) : isBreaking(commits[k])

\* the bump with the feature test put before the breaking test
versionBumpFeatFirst(commits, features) ==
    IF Len(features) > 0 THEN "minor"
    ELSE IF hasBreaking(commits) THEN "major"
    ELSE "patch"

versionBumpOf(commits, features) ==
    IF hasBreaking(commits) THEN "major"
    ELSE IF Len(features) > 0 THEN "minor"
    ELSE "patch"

suggestedVersionOf(versionBump) ==
    IF versionBump = "major" THEN "v3.0.0"
    ELSE IF versionBump = "minor" THEN "v2.1.0"
    ELSE "v2.0.1"

\* Array.prototype.filter is SelectSeq
categorize(inputData) ==
    LET commits == inputData.commits
        features == SelectSeq(commits, isFeat)
        versionBump == versionBumpOf(commits, features)
    IN [fromRef |-> inputData.fromRef,
        toRef |-> inputData.toRef,
        instructions |-> inputData.instructions,
        features |-> features,
        fixes |-> SelectSeq(commits, isFix),
        performance |-> SelectSeq(commits, isPerf),
        maintenance |-> SelectSeq(commits, isMaintenance),
        versionBump |-> versionBump,
        suggestedVersion |-> suggestedVersionOf(versionBump)]

(***************************************************************************)
(* Steps 3a and 3b, enrich-features and enrich-fixes: whether the model is *)
(* called, and what the step returns for a resolved call (the object, as   *)
(* it came).                                                               *)
(***************************************************************************)
featuresCallsModel(inputData) == Len(inputData.features) # 0

fixesAll(inputData) == inputData.fixes \o inputData.performance \o inputData.maintenance

\* a fix step that asks the model whatever its input
fixesAlwaysCallsModel(inputData) == TRUE

fixesCallsModel(inputData) == Len(fixesAll(inputData)) # 0

\* lines 161-175 and 213-237: what of inputData the two prompts interpolate
enrichFeaturesPrompt(inputData) ==
    [instructions |-> inputData.instructions, features |-> inputData.features]

enrichFixesPrompt(inputData) ==
    [instructions |-> inputData.instructions, fixes |-> inputData.fixes,
     performance |-> inputData.performance, maintenance |-> inputData.maintenance]

NoFeatures == [enrichedFeatures |-> <<>>]
NoFixes == [enrichedFixes |-> <<>>, enrichedPerformance |-> <<>>, enrichedMaintenance |-> <<>>]

(***************************************************************************)
(* Steps 5a, 5b and 6: pass-through, refine-notes and finalize-output.     *)
(***************************************************************************)
\* a pass-through that forwards the version but not the text
passThroughBlank(inputData) ==
    [draft |-> "", version |-> inputData.version, refined |-> FALSE]

passThrough(inputData) ==
    [draft |-> inputData.draft, version |-> inputData.version, refined |-> FALSE]

\* a refiner that does not mark its output
refineUnmarked(inputData, text) ==
    [draft |-> text, version |-> inputData.version, refined |-> FALSE]

refine(inputData, text) ==
    [draft |-> text, version |-> inputData.version, refined |-> TRUE]

\* the two conditions of .branch([...]), in the order written
refineCondition(inputData) == ~inputData.isComplete

\* a pass-through condition that does not read the draft
passThroughAlways(inputData) == TRUE

passThroughCondition(inputData) == inputData.isComplete

Has(inputData, key) == key \in DOMAIN inputData

NoContent == "## Release Notes\n\nNo content generated."

finalize(inputData) ==
    IF Has(inputData, "pass-through")
    THEN [result |-> inputData["pass-through"].draft,
          version |-> inputData["pass-through"].version,
          refined |-> inputData["pass-through"].refined]
    ELSE IF Has(inputData, "refine-notes")
    THEN [result |-> inputData["refine-notes"].draft,
          version |-> inputData["refine-notes"].version,
          refined |-> inputData["refine-notes"].refined]
    ELSE [result |-> NoContent, version |-> "unknown", refined |-> FALSE]

(***************************************************************************)
(* Responses the language model is let to give, within the bounds.         *)
(***************************************************************************)
Range(s) == {s[k] : k \in 1..Len(s)}

Commit(sha, type, breaking) ==
    [sha |-> sha, type |-> type, message |-> "message", breaking |-> breaking]

\* an entry that rewrites commit c
Enriched(c) ==
    [sha |-> c.sha, type |-> c.type, title |-> "Title", description |-> "Description.",
     breaking |-> c.breaking]

\* classifier answers about the first n commits of REPO_COMMITS, any type and flag
RECURSIVE ClassifiedSeqs(_, _, _)
ClassifiedSeqs(types, flags, n) ==
    IF n = 0 THEN {<<>>}
    ELSE LET shorter == ClassifiedSeqs(types, flags, n - 1)
         IN shorter \cup
            {Append(cs, Commit(REPO_COMMITS[n], t, f)) :
                cs \in {s \in shorter : Len(s) = n - 1}, t \in types, f \in flags}

\* what the classifier answers in a whole run: a feature, a fix or a maintenance
\* commit, none flagged breaking (the categorizer is checked on every type and flag
\* on its own, and no later step reads the bump)
RunTypes == {"feat", "fix", "chore"}
RunFlags == {FALSE}

ClassifyResponses ==
    Rejections \cup
    {Resolved([commits |-> cs]) : cs \in ClassifiedSeqs(RunTypes, RunFlags, MaxCommits)}

\* any entries for the commits it was shown: dropped, repeated, reordered
FeatureResponses(inputData) ==
    Rejections \cup
    {Resolved([enrichedFeatures |-> es]) :
        es \in SeqsUpTo({Enriched(c) : c \in Range(enrichFeaturesPrompt(inputData).features)},
                        MaxEnriched)}

\* any entries for the commits it was shown, put in any of the three arrays
FixResponses(inputData) ==
    LET shown == enrichFixesPrompt(inputData)
        E == {Enriched(c) : c \in Range(shown.fixes \o shown.performance \o shown.maintenance)}
        Cuts(s) == {c \in (0..Len(s)) \X (0..Len(s)) : c[1] <= c[2]}
    IN Rejections \cup
       UNION {{Resolved([enrichedFixes |-> SubSeq(s, 1, c[1]),
                         enrichedPerformance |-> SubSeq(s, c[1] + 1, c[2]),
                         enrichedMaintenance |-> SubSeq(s, c[2] + 1, Len(s))]) : c \in Cuts(s)} :
                 s \in SeqsUpTo(E, MaxEnriched)}

Markdowns == {"## v2.1.0 - December 2025", "## Release notes"}
Versions == {"v2.1.0", "v3.0.0"}
SuggestionLists == {<<>>, <<"Describe the user impact">>}

DraftResponses ==
    Rejections \cup
    {Resolved([draft |-> d, version |-> v, isComplete |-> c, suggestions |-> g]) :
        d \in Markdowns, v \in Versions, c \in BOOLEAN, g \in SuggestionLists}

RefinedTexts == {"## v2.1.0 - December 2025 (improved)", ""}

\* generateText: a text or a rejection
RefineResponses == {[kind |-> "error", object |-> <<>>]} \cup {Resolved(t) : t \in RefinedTexts}

(***************************************************************************)
(* The workflow run: then, parallel, then, branch, then.  A step gets the  *)
(* output of the step before it; a fork gives the next step an object keyed*)
(* by the ids of the steps it ran.  A step that throws fails the run.      *)
(***************************************************************************)
NoData == <<>>
NoFork == <<>>

\* the steps of the workflow, and "branch" for the evaluation of the branch conditions
StepIds == {"parse-commits", "categorize-commits", "enrich-features", "enrich-fixes",
            "draft-release-notes", "branch", "refine-notes", "pass-through",
            "finalize-output"}

\* the language-model calls in the steps
CallKinds == {"classify", "enrich-features", "enrich-fixes", "draft", "refine"}

Count(tally, what) == [tally EXCEPT ![what] = @ + 1]

Fail(why) ==
    /\ pc' = "failed"
    /\ failure' = why
    /\ data' = NoData
    /\ br' = NoFork

\* run.start({inputData: {query}}) on a fresh run
StartRun(query) ==
    /\ pc = "idle"
    /\ pc' = "parse"
    /\ init' = [query |-> query]
    /\ data' = [query |-> query]
    /\ UNCHANGED <<br, failure, executed, llmCalls, classifierRequest>>
    /\ UNCHANGED httpVars

\* a prompt that lists the built-in commits for the default range only
classifyPromptOfRange(inputData) ==
    IF parseQuery(inputData.query).fromRef = DefaultFrom THEN REPO_COMMITS ELSE <<>>

\* lines 69-83: the prompt interpolates REPO_COMMITS and no field of inputData
classifyPrompt(inputData) == REPO_COMMITS

\* parse-commits: parse the query, ask the classifier, return both
ParseCommits(r) ==
    /\ pc = "parse"
    /\ executed' = Count(executed,"parse-commits")
    /\ llmCalls' = Count(llmCalls,"classify")
    /\ classifierRequest' = classifyPrompt(data)
    /\ IF r.kind = "ok"
       THEN /\ data' = [fromRef |-> parseQuery(data.query).fromRef,
                        toRef |-> parseQuery(data.query).toRef,
                        instructions |-> parseQuery(data.query).instructions,
                        commits |-> r.object.commits]
            /\ pc' = "categorize"
            /\ UNCHANGED <<br, failure>>
       ELSE Fail(r.kind)
    /\ UNCHANGED init
    /\ UNCHANGED httpVars

\* categorize-commits, then the engine opens the parallel fork
Categorize ==
    /\ pc = "categorize"
    /\ executed' = Count(executed,"categorize-commits")
    /\ data' = categorize(data)
    /\ pc' = "parallel"
    /\ br' = [id \in {"enrich-features", "enrich-fixes"} |-> Pending]
    /\ UNCHANGED <<init, failure, llmCalls, classifierRequest>>
    /\ UNCHANGED httpVars

\* enrich-features, one of the two concurrent steps
EnrichFeatures(r) ==
    /\ pc = "parallel"
    /\ br["enrich-features"] = Pending
    /\ executed' = Count(executed,"enrich-features")
    /\ IF featuresCallsModel(data)
       THEN /\ llmCalls' = Count(llmCalls,"enrich-features")
            /\ br' = [br EXCEPT !["enrich-features"] =
                         IF r.kind = "ok" THEN Success(r.object) ELSE Failed]
       ELSE /\ llmCalls' = llmCalls
            /\ br' = [br EXCEPT !["enrich-features"] = Success(NoFeatures)]
    /\ UNCHANGED <<pc, init, data, failure, classifierRequest>>
    /\ UNCHANGED httpVars

\* enrich-fixes, the other one
EnrichFixes(r) ==
    /\ pc = "parallel"
    /\ br["enrich-fixes"] = Pending
    /\ executed' = Count(executed,"enrich-fixes")
    /\ IF fixesCallsModel(data)
       THEN /\ llmCalls' = Count(llmCalls,"enrich-fixes")
            /\ br' = [br EXCEPT !["enrich-fixes"] =
                         IF r.kind = "ok" THEN Success(r.object) ELSE Failed]
       ELSE /\ llmCalls' = llmCalls
            /\ br' = [br EXCEPT !["enrich-fixes"] = Success(NoFixes)]
    /\ UNCHANGED <<pc, init, data, failure, classifierRequest>>
    /\ UNCHANGED httpVars

\* a join that waits for one step only
SettledAny(fork) == \E id \in DOMAIN fork : fork[id] # Pending

Settled(fork) == \A id \in DOMAIN fork : fork[id] # Pending
AnyFailed(fork) == \E id \in DOMAIN fork : fork[id] = Failed
Outputs(fork) == [id \in DOMAIN fork |-> fork[id].output]

\* the engine closes a fork once every step in it has settled
CloseFork(next) ==
    /\ Settled(br)
    /\ IF AnyFailed(br)
       THEN Fail("step")
       ELSE /\ data' = Outputs(br)
            /\ pc' = next
            /\ br' = NoFork
            /\ UNCHANGED failure
    /\ UNCHANGED <<init, executed, llmCalls, classifierRequest>>
    /\ UNCHANGED httpVars

ParallelJoin == pc = "parallel" /\ CloseFork("draft")

\* lines 270-273: an enriched array of the fork's output, [] when its step's key is absent
draftInput(inputData, step, field) ==
    IF Has(inputData, step) THEN inputData[step][field] ELSE <<>>

\* lines 269-273 and 303-315: what the drafter's prompt interpolates, the run's
\* initial query as it was typed and the four enriched arrays
draftPrompt(initData, inputData) ==
    [query |-> initData.query,
     features |-> draftInput(inputData, "enrich-features", "enrichedFeatures"),
     fixes |-> draftInput(inputData, "enrich-fixes", "enrichedFixes"),
     perf |-> draftInput(inputData, "enrich-fixes", "enrichedPerformance"),
     maintenance |-> draftInput(inputData, "enrich-fixes", "enrichedMaintenance")]

\* draft-release-notes: the step returns the model's object as it came
Draft(r) ==
    /\ pc = "draft"
    /\ executed' = Count(executed,"draft-release-notes")
    /\ llmCalls' = Count(llmCalls,"draft")
    /\ IF r.kind = "ok"
       THEN /\ data' = r.object
            /\ pc' = "gate"
            /\ UNCHANGED <<br, failure>>
       ELSE Fail(r.kind)
    /\ UNCHANGED <<init, classifierRequest>>
    /\ UNCHANGED httpVars

\* .branch: the engine evaluates every condition on the draft and opens a fork
\* of the steps whose condition is truthy
Gate ==
    /\ pc = "gate"
    /\ executed' = Count(executed,"branch")
    /\ br' = [id \in {id \in {"refine-notes", "pass-through"} :
                        \/ id = "refine-notes" /\ refineCondition(data)
                        \/ id = "pass-through" /\ passThroughCondition(data)} |-> Pending]
    /\ pc' = "branch"
    /\ UNCHANGED <<init, data, failure, llmCalls, classifierRequest>>
    /\ UNCHANGED httpVars

\* refine-notes
RefineNotes(r) ==
    /\ pc = "branch"
    /\ Has(br, "refine-notes")
    /\ br["refine-notes"] = Pending
    /\ executed' = Count(executed,"refine-notes")
    /\ llmCalls' = Count(llmCalls,"refine")
    /\ br' = [br EXCEPT !["refine-notes"] =
                 IF r.kind = "ok" THEN Success(refine(data, r.object)) ELSE Failed]
    /\ UNCHANGED <<pc, init, data, failure, classifierRequest>>
    /\ UNCHANGED httpVars

\* pass-through
PassThrough ==
    /\ pc = "branch"
    /\ Has(br, "pass-through")
    /\ br["pass-through"] = Pending
    /\ executed' = Count(executed,"pass-through")
    /\ br' = [br EXCEPT !["pass-through"] = Success(passThrough(data))]
    /\ UNCHANGED <<pc, init, data, failure, llmCalls, classifierRequest>>
    /\ UNCHANGED httpVars

BranchJoin == pc = "branch" /\ CloseFork("finalize")

\* a last step that hands its result back to the drafter
FinalizeThenRedraft ==
    /\ pc = "finalize"
    /\ executed' = Count(executed,"finalize-output")
    /\ data' = finalize(data)
    /\ pc' = "draft"
    /\ UNCHANGED <<init, br, failure, llmCalls, classifierRequest>>
    /\ UNCHANGED httpVars

\* finalize-output: its output is the result of the run
Finalize ==
    /\ pc = "finalize"
    /\ executed' = Count(executed,"finalize-output")
    /\ data' = finalize(data)
    /\ pc' = "done"
    /\ UNCHANGED <<init, br, failure, llmCalls, classifierRequest>>
    /\ UNCHANGED httpVars

(***************************************************************************)
(* Whole runs of the workflow, started directly on the workflow object.    *)
(***************************************************************************)
Sp == <<" ">>
Nl == <<"\n">>
HexA == <<"f","5","9">>
HexB == <<"9","F","1">>

RunQueries ==
    {Concat(<<KwCommit, KwS, Sp, HexA, DotDot, HexB>>),
     Concat(<<KwCommit, KwS, Sp, HexB, DotDot, HexB>>),
     Concat(<<KwCommit, Sp, HexB, DotDot, HexA, Nl, LabelText, Sp, <<"o","a","u","t","h">>>>)}

NoReq == [t |-> "none"]
NoResp == [status |-> 0, body |-> <<>>]

InitHttp ==
    /\ req = NoReq
    /\ resp = NoResp
    /\ served = 0
    /\ runs = 0

InitRun ==
    /\ pc = "idle"
    /\ init = NoData
    /\ data = NoData
    /\ br = NoFork
    /\ failure = ""
    /\ executed = [id \in StepIds |-> 0]
    /\ llmCalls = [kind \in CallKinds |-> 0]
    /\ classifierRequest = NoData

Init == InitHttp /\ InitRun

Next ==
    \/ \E q \in RunQueries : StartRun(q)
    \/ \E r \in ClassifyResponses : ParseCommits(r)
    \/ Categorize
    \/ pc = "parallel" /\ \E r \in FeatureResponses(data) : EnrichFeatures(r)
    \/ pc = "parallel" /\ \E r \in FixResponses(data) : EnrichFixes(r)
    \/ ParallelJoin
    \/ \E r \in DraftResponses : Draft(r)
    \/ Gate
    \/ \E r \in RefineResponses : RefineNotes(r)
    \/ PassThrough
    \/ BranchJoin
    \/ Finalize

Spec == Init /\ [][Next]_vars

(***************************************************************************)
(* The HTTP server: POST /api/query.                                       *)
(***************************************************************************)
\* a JSON value found at req.body.commitLog: its typeof, its truthiness, its text
JsValue(t, truthy, s) == [t |-> t, truthy |-> truthy, s |-> s]
JsString(s) == JsValue("string", s # <<>>, s)

NonStrings ==
    {JsValue("undefined", FALSE, <<>>),     \* no commitLog in the body
     JsValue("object", FALSE, <<>>),        \* null
     JsValue("object", TRUE, <<>>),         \* an array or an object
     JsValue("number", FALSE, <<>>),        \* 0
     JsValue("number", TRUE, <<>>),         \* 7
     JsValue("boolean", FALSE, <<>>),
     JsValue("boolean", TRUE, <<>>)}

BodyFrags == {KwCommit, Sp, Nl, HexA \o DotDot \o HexB}

Bodies == NonStrings \cup {JsString(Concat(fs)) : fs \in SeqsUpTo(BodyFrags, MaxBodyFrags)}

\* new Mastra({workflows: {queryWorkflow}}): the keys the registry holds
mastraWorkflows == {"queryWorkflow"}

\* mastra.getWorkflow(id) throws for an id the registry does not hold
getWorkflowThrows(id) == id \notin mastraWorkflows

\* line 79: !commitLog || typeof commitLog !== "string"
\* a guard that tests the type only, and lets the empty string through
rejectedTypeOnly(commitLog) == commitLog.t # "string"

rejected(commitLog) == ~commitLog.truthy \/ commitLog.t # "string"

Response(status, body) == [status |-> status, body |-> body]
BadRequest == Response(400, [error |-> "commitLog is required"])
ServerError == Response(500, [error |-> "Workflow execution failed"])

\* the handler up to its first await: the 400, the throw of getWorkflow caught
\* into the 500, or a run created and started on {commitLog}
PostQuery(commitLog) ==
    /\ served < MaxServed
    /\ resp # NoResp \/ req = NoReq
    /\ pc = "idle"
    /\ req' = commitLog
    /\ IF rejected(commitLog)
       THEN /\ resp' = BadRequest
            /\ served' = served + 1
            /\ UNCHANGED runs
            /\ UNCHANGED runVars
       ELSE IF getWorkflowThrows("releaseNotesWorkflow")
       THEN /\ resp' = ServerError
            /\ served' = served + 1
            /\ UNCHANGED runs
            /\ UNCHANGED runVars
       ELSE /\ resp' = NoResp
            /\ runs' = runs + 1
            /\ pc' = "parse"
            /\ init' = [commitLog |-> commitLog.s]
            /\ data' = [commitLog |-> commitLog.s]
            /\ UNCHANGED <<served, br, failure, executed, llmCalls, classifierRequest>>

\* lines 86-94, the handler after run.start settles.  run.start resolves with the
\* run's envelope {status, result | error, steps} also when a step failed, and the
\* handler sends output.result if there is one and the envelope otherwise.  No
\* behaviour gets here: PostQuery never starts a run (getWorkflow throws).
RespondToRun ==
    /\ req # NoReq
    /\ resp = NoResp
    /\ pc \in {"done", "failed"}
    /\ resp' = IF pc = "done"
               THEN Response(200, data)
               ELSE Response(200, [status |-> "failed", error |-> failure])
    /\ served' = served + 1
    /\ pc' = "idle"
    /\ UNCHANGED <<req, runs, init, data, br, failure, executed, llmCalls, classifierRequest>>

NextHttp == \E commitLog \in Bodies : PostQuery(commitLog)

SpecHttp == Init /\ [][NextHttp]_vars

TypeOK == pc \in {"idle", "parse", "categorize", "parallel", "draft", "gate", "branch",
                  "finalize", "done", "failed"}

(***************************************************************************)
(* The parse step on its own: runs that have just been started on every    *)
(* query of a bounded family, and the parse-commits step applied to each.  *)
(***************************************************************************)
KwCommitsUpper == <<"C","o","m","m","i","t","S">>
HexMixed == <<"a","F">>
NonHex == <<"g">>
LabelUpper == <<"a","d","d","i","t","i","o","n","a","l"," ",
                "I","N","S","T","R","U","C","T","I","O","N","S",":">>
Words == <<"o","a","u","t","h">>
LaterRange == Nl \o KwCommit \o Sp \o <<"0">> \o DotDot \o <<"9">>

LineFrags == {KwCommit, KwCommitsUpper, Sp, HexMixed, DotDot, NonHex}
RestFrags == {LabelText, LabelUpper, Sp, Nl, Words}

FirstLines(n) == {Concat(fs) : fs \in SeqsUpTo(LineFrags, n)}
Rests(n) == {Concat(fs) : fs \in SeqsUpTo(RestFrags, n)}

ShortLines == {<<>>, KwCommit \o Sp \o HexMixed \o DotDot \o HexMixed}

\* first lines shaped like a range, each part right, wrong or missing
LinePrefixes == {<<>>, NonHex, KwCommit \o Sp, HexMixed \o DotDot}
Keywords == {KwCommit, KwCommitsUpper}
Gaps == {<<>>, Sp, Sp \o <<"\t">>}
Hexes == {<<>>, HexMixed, NonHex, HexMixed \o NonHex}
Seps == {DotDot, <<".">>}
LineSuffixes == {<<>>, NonHex, DotDot \o HexMixed}

ShapedLines ==
    {p \o k \o g \o f \o d \o t \o x :
        p \in LinePrefixes, k \in Keywords, g \in Gaps, f \in Hexes,
        d \in Seps, t \in Hexes, x \in LineSuffixes}

ParserQueries ==
    FirstLines(MaxLineFrags)
    \cup ShapedLines
    \cup {l \o LaterRange : l \in FirstLines(MaxLineFrags - 2)}
    \cup {l \o Nl \o r : l \in ShortLines, r \in Rests(MaxRestFrags)}

\* the classifier's answer is of no interest here: it classifies nothing
ParserResponses == {Resolved([commits |-> <<>>])}

InitParser ==
    /\ InitHttp
    /\ pc = "parse"
    /\ \E q \in ParserQueries : init = [query |-> q] /\ data = [query |-> q]
    /\ br = NoFork
    /\ failure = ""
    /\ executed = [id \in StepIds |-> 0]
    /\ llmCalls = [kind \in CallKinds |-> 0]
    /\ classifierRequest = NoData

NextParser == \E r \in ParserResponses : ParseCommits(r)

SpecParser == InitParser /\ [][NextParser]_vars

(***************************************************************************)
(* The categorize step on its own: a run whose classifier answers with any *)
(* commits of any type and flag, and the step applied to each answer.      *)
(***************************************************************************)
CategorizerResponses ==
    {Resolved([commits |-> cs]) : cs \in ClassifiedSeqs(CommitTypes, BOOLEAN, MaxClassified)}

InitCategorizer ==
    /\ InitHttp
    /\ pc = "parse"
    /\ init = [query |-> Words]
    /\ data = [query |-> Words]
    /\ br = NoFork
    /\ failure = ""
    /\ executed = [id \in StepIds |-> 0]
    /\ llmCalls = [kind \in CallKinds |-> 0]
    /\ classifierRequest = NoData

NextCategorizer ==
    \/ pc = "parse" /\ \E r \in CategorizerResponses : ParseCommits(r)
    \/ Categorize

SpecCategorizer == InitCategorizer /\ [][NextCategorizer]_vars

(***************************************************************************)
(* Claims about the HTTP server, checked under SpecHttp.                   *)
(***************************************************************************)
Answered == req # NoReq /\ resp # NoResp

NonEmptyString(v) == v.t = "string" /\ v.s # <<>>

NoStepRan == \A id \in StepIds : executed[id] = 0
NoModelCall == \A kind \in CallKinds : llmCalls[kind] = 0

IsFinalResult(body) == DOMAIN body = {"result", "version", "refined"}

\* C1: a request whose commitLog is a non-empty string, none of whose language-model
\* calls failed, is answered 200 with a body {result, version, refined}.
C1_ValidRequestAnswered200 ==
    (Answered /\ NonEmptyString(req) /\ failure = "")
        => resp.status = 200 /\ IsFinalResult(resp.body)

\* C3: a request whose commitLog is missing, not a string or the empty string is
\* answered 400 {error: "commitLog is required"}, and no run is created, no step
\* runs and no language-model call is issued for it.
C3_InvalidRequestRejected ==
    (req # NoReq /\ ~NonEmptyString(req))
        => /\ resp = Response(400, [error |-> "commitLog is required"])
           /\ runs = 0
           /\ pc = "idle"
           /\ NoStepRan
           /\ NoModelCall

\* C3 witness: the empty string has been sent as commitLog and answered 400
C3_Witness_EmptyRejected == req = JsString(<<>>) /\ resp.status = 400

(***************************************************************************)
(* Claims about the parse step, checked under SpecParser.  The pattern is  *)
(* stated here by what a match is, not by how the engine finds it.         *)
(***************************************************************************)
Parsed == executed["parse-commits"] > 0

\* the positions of the first line break of q (Len(q) + 1 when there is none)
FirstBreak(q) ==
    IF \E k \in 1..Len(q) : q[k] = "\n"
    THEN CHOOSE k \in 1..Len(q) : q[k] = "\n" /\ \A j \in 1..(k - 1) : q[j] # "\n"
    ELSE Len(q) + 1

FirstLine(q) == SubSeq(q, 1, FirstBreak(q) - 1)
AfterFirstLine(q) == From(q, FirstBreak(q) + 1)

HexRun(l, a, b) == a <= b /\ b <= Len(l) /\ \A k \in a..b : IsHex(l[k])

\* after commit at i: an optional s, then white space up to a - 1
SpacesTo(l, i, a) ==
    \E p \in {i + 6, i + 7} :
        /\ p = i + 7 => LitAt(l, i + 6, KwS)
        /\ p < a
        /\ \A k \in p..(a - 1) : IsSpace(l[k])

\* l[i..] begins with commit, an optional s, white space up to a - 1, the hex run
\* l[a..b], two dots, and the hex run l[b+3..d] which no hex digit follows
PatternAt(l, i, a, b, d) ==
    /\ LitAt(l, i, KwCommit)
    /\ SpacesTo(l, i, a)
    /\ HexRun(l, a, b)
    /\ LitAt(l, b + 1, DotDot)
    /\ HexRun(l, b + 3, d)
    /\ (d = Len(l) \/ ~IsHex(l[d + 1]))

\* the captures of a match that starts at i
CapturesAt(l, i, fromRef, toRef) ==
    /\ LitAt(l, i, KwCommit)
    /\ \E a \in (i + 7)..Len(l) :
          /\ SpacesTo(l, i, a)
          /\ \E b \in a..Len(l) :
                /\ HexRun(l, a, b) /\ LitAt(l, b + 1, DotDot)
                /\ \E d \in (b + 3)..Len(l) :
                      /\ PatternAt(l, i, a, b, d)
                      /\ fromRef = SubSeq(l, a, b)
                      /\ toRef = SubSeq(l, b + 3, d)

MatchesAt(l, i) ==
    /\ LitAt(l, i, KwCommit)
    /\ \E a \in (i + 7)..Len(l) :
          /\ SpacesTo(l, i, a)
          /\ \E b \in a..Len(l) :
                /\ HexRun(l, a, b) /\ LitAt(l, b + 1, DotDot)
                /\ \E d \in (b + 3)..Len(l) : PatternAt(l, i, a, b, d)

HasRange(l) == \E i \in 1..Len(l) : MatchesAt(l, i)

\* the refs are those of the leftmost match
RefsOfPattern(l, fromRef, toRef) ==
    \E i \in 1..Len(l) :
        /\ CapturesAt(l, i, fromRef, toRef)
        /\ \A j \in 1..(i - 1) : ~MatchesAt(l, j)

\* C8: on every non-empty query the parser does not fail, and fromRef/toRef are the
\* hex pair the pattern captures on the first line when it matches there, and
\* HEAD~12/HEAD otherwise, whatever the later lines hold.
C8_RefsFromFirstLine ==
    (Parsed /\ init.query # <<>>)
        => /\ pc = "categorize" /\ failure = ""
           /\ IF HasRange(FirstLine(init.query))
              THEN RefsOfPattern(FirstLine(init.query), data.fromRef, data.toRef)
              ELSE data.fromRef = DefaultFrom /\ data.toRef = DefaultTo

\* C8 witness: a query whose only range is on its second line was parsed to the defaults
C8_Witness_LaterRangeIgnored ==
    /\ Parsed
    /\ init.query = NonHex \o LaterRange
    /\ HasRange(AfterFirstLine(init.query))
    /\ data.fromRef = DefaultFrom /\ data.toRef = DefaultTo

BeginsWithSpace(s) == s # <<>> /\ IsSpace(s[1])
BeginsWithLabel(s) == LitAt(s, 1, LabelText)

\* C9: the instructions are what follows the first line break, without a leading
\* "Additional instructions:" label (in any case) and without surrounding white
\* space; they are empty when nothing follows the first line, and they never begin
\* with white space or with the label.
C9_InstructionsStripped ==
    Parsed
        => /\ data.instructions = Trim(stripLabel(AfterFirstLine(init.query)))
           /\ AfterFirstLine(init.query) = <<>> => data.instructions = <<>>
           /\ ~BeginsWithSpace(data.instructions)
           /\ ~BeginsWithLabel(data.instructions)

\* the part of C9 that holds: the value, and no white space at either end
C9_Probe_NoSurroundingSpace ==
    Parsed
        => /\ data.instructions = Trim(stripLabel(AfterFirstLine(init.query)))
           /\ AfterFirstLine(init.query) = <<>> => data.instructions = <<>>
           /\ ~BeginsWithSpace(data.instructions)

\* the state C9 fails in: white space before the label on line 2 keeps the label
C9_Probe_LabelKept ==
    /\ Parsed
    /\ init.query = Nl \o Sp \o LabelText \o Sp \o Words
    /\ data.instructions = LabelText \o Sp \o Words

(***************************************************************************)
(* Claims about the categorize step, checked under SpecCategorizer.        *)
(***************************************************************************)
Occurrences(s, x) == Cardinality({k \in 1..Len(s) : s[k] = x})

BucketOf(type) ==
    IF type = "feat" THEN "features"
    ELSE IF type = "fix" THEN "fixes"
    ELSE IF type = "perf" THEN "performance"
    ELSE "maintenance"

Buckets == {"features", "fixes", "performance", "maintenance"}

Partitioned(commits, batch) ==
    /\ Len(batch.features) + Len(batch.fixes) + Len(batch.performance)
          + Len(batch.maintenance) = Len(commits)
    /\ \A k \in 1..Len(commits) : \A b \in Buckets :
          Occurrences(batch[b], commits[k]) =
              IF b = BucketOf(commits[k].type) THEN Occurrences(commits, commits[k]) ELSE 0

\* C6: the categorizer puts every commit it is given in exactly one bucket, the one
\* of its type, and the four buckets together are as long as the input.
C6_PartitionTotality == [][pc = "categorize" => Partitioned(data.commits, data')]_vars

\* C6 witness: a batch with a feature and two maintenance commits of different types
C6_Witness_ThreeSorted ==
    /\ pc = "parallel"
    /\ Len(data.features) = 1
    /\ Len(data.maintenance) = 2
    /\ data.maintenance[1].type = "test"
    /\ data.maintenance[2].type = "docs"

BumpOf(commits) ==
    IF \E k \in 1..Len(commits) : commits[k].breaking THEN "major"
    ELSE IF \E k \in 1..Len(commits) : commits[k].type = "feat" THEN "minor"
    ELSE "patch"

\* C7: the bump is major when a commit is breaking, whatever the types; else minor
\* when a commit is a feature; else patch, also for no commits at all.
C7_BumpPrecedence == [][pc = "categorize" => data'.versionBump = BumpOf(data.commits)]_vars

\* C7 witness: a breaking fix next to a feature that is not breaking gave major
C7_Witness_BreakingBeatsFeat ==
    /\ pc = "parallel"
    /\ data.versionBump = "major"
    /\ Len(data.features) = 1 /\ ~data.features[1].breaking
    /\ Len(data.fixes) = 1 /\ data.fixes[1].breaking

(***************************************************************************)
(* Claims about whole runs, checked under Spec.                            *)
(***************************************************************************)
GatePassed == executed["branch"] > 0
BranchRuns == executed["refine-notes"] + executed["pass-through"]

\* C4: once the gate has decided, exactly one of refine-notes and pass-through is
\* run, refine-notes when the draft's isComplete is false and pass-through when it
\* is true; before the gate neither has run.
C4_GateExclusive ==
    /\ BranchRuns <= 1
    /\ ~GatePassed => BranchRuns = 0
    /\ pc = "branch" =>
          /\ DOMAIN br = (IF data.isComplete THEN {"pass-through"} ELSE {"refine-notes"})
          /\ \A id \in DOMAIN br : executed[id] = (IF br[id] = Pending THEN 0 ELSE 1)
    /\ (GatePassed /\ pc # "branch") => BranchRuns = 1
    /\ pc = "finalize" =>
          \A id \in {"refine-notes", "pass-through"} : Has(data, id) <=> executed[id] = 1

\* C4 witness: a run is over in which refine-notes ran and pass-through did not
C4_Witness_OnlyRefiner ==
    pc = "done" /\ executed["refine-notes"] = 1 /\ executed["pass-through"] = 0

\* C5: the result of a run says refined exactly when refine-notes ran in that run.
C5_RefinedIffRefinerRan ==
    pc = "done" => (data.refined <=> executed["refine-notes"] > 0)

\* C5 witness: a run is over whose result says refined
C5_Witness_RefinedResult ==
    pc = "done" /\ data.refined /\ executed["refine-notes"] = 1

\* the shas of a sequence of commits or of entries, in order
Shas(s) == [k \in 1..Len(s) |-> s[k].sha]

BothEnriched ==
    /\ pc = "parallel"
    /\ br["enrich-features"].status = "success"
    /\ br["enrich-fixes"].status = "success"

\* C10: when both enrichment steps have succeeded, each output array holds the
\* entries of the commits of its input bucket, one each, in the order of the bucket.
C10_EnrichmentKeepsBuckets ==
    BothEnriched =>
        /\ Shas(br["enrich-features"].output.enrichedFeatures) = Shas(data.features)
        /\ Shas(br["enrich-fixes"].output.enrichedFixes) = Shas(data.fixes)
        /\ Shas(br["enrich-fixes"].output.enrichedPerformance) = Shas(data.performance)
        /\ Shas(br["enrich-fixes"].output.enrichedMaintenance) = Shas(data.maintenance)

\* the result of a run whose draft d went through pass-through
Forwarded(d) == [result |-> d.draft, version |-> d.version, refined |-> FALSE]

\* C11: when the draft is complete, pass-through returns its text and version with
\* refined = false, the finalizer turns exactly that into the result, and from the
\* gate on no language-model call is issued.
C11_PassThroughIdentity ==
    [][/\ (pc = "branch" /\ data.isComplete) => llmCalls' = llmCalls
       /\ (pc = "branch" /\ data.isComplete /\ pc' = "finalize") =>
              data' = [id \in {"pass-through"} |->
                          [draft |-> data.draft, version |-> data.version,
                           refined |-> FALSE]]
       /\ (pc = "finalize" /\ Has(data, "pass-through")) =>
              /\ data' = Forwarded(data["pass-through"])
              /\ llmCalls' = llmCalls
              /\ llmCalls["refine"] = 0]_vars

\* C11 witness: a run is over that forwarded the second draft text under version v3.0.0
C11_Witness_Forwarded ==
    /\ pc = "done"
    /\ executed["pass-through"] = 1
    /\ llmCalls["refine"] = 0
    /\ data = [result |-> "## Release notes", version |-> "v3.0.0", refined |-> FALSE]

DraftRuns == executed["draft-release-notes"]

\* the drafter's input is whole: the outputs of both enrichment steps, each with
\* every array its step returns
WholeDraftInput ==
    /\ DOMAIN data = {"enrich-features", "enrich-fixes"}
    /\ DOMAIN data["enrich-features"] = {"enrichedFeatures"}
    /\ DOMAIN data["enrich-fixes"] =
          {"enrichedFixes", "enrichedPerformance", "enrichedMaintenance"}

JoinedBeforeDraft ==
    /\ pc = "parallel" => DraftRuns = 0
    /\ pc = "draft" => WholeDraftInput
    /\ (pc = "draft" \/ DraftRuns > 0) =>
          executed["enrich-features"] = 1 /\ executed["enrich-fixes"] = 1

\* C12: in whatever order the two enrichment steps run, the drafter gets control
\* only when both have returned, with the outputs of both; when one of them has
\* failed the fork ends in the failure of the run, the drafter has not run, and
\* nothing runs after the failure.
C12_JoinBeforeDraft ==
    [][/\ JoinedBeforeDraft'
       /\ (pc = "parallel" /\ pc' # "parallel") =>
              /\ Settled(br)
              /\ IF AnyFailed(br)
                 THEN pc' = "failed" /\ DraftRuns' = 0
                 ELSE pc' = "draft"
       /\ pc # "failed"]_vars

\* C12 witness: the drafter has run after both enrichment steps called the model
C12_Witness_DraftAfterBoth ==
    /\ pc = "gate"
    /\ DraftRuns = 1
    /\ llmCalls["enrich-features"] = 1
    /\ llmCalls["enrich-fixes"] = 1

\* C13: in a run the branch conditions are evaluated at most once, and the drafter
\* and the refiner run at most once each; from the branch control goes to the
\* finalizer or to the failure of the run, from the finalizer to the end, and from
\* the end nowhere.
C13_SinglePass ==
    [][/\ executed'["branch"] <= 1
       /\ executed'["draft-release-notes"] <= 1
       /\ executed'["refine-notes"] <= 1
       /\ executed'["pass-through"] <= 1
       /\ pc = "branch" => pc' \in {"branch", "finalize", "failed"}
       /\ pc = "finalize" => pc' = "done"
       /\ pc # "done"]_vars

\* C13 witness: a run is over in which the gate, the refiner and the finalizer ran once
C13_Witness_OnceThrough ==
    /\ pc = "done"
    /\ executed["branch"] = 1
    /\ executed["refine-notes"] = 1
    /\ executed["finalize-output"] = 1
    /\ executed["draft-release-notes"] = 1

Ran(id) == executed'[id] = executed[id] + 1

NoNewCall == llmCalls' = llmCalls

\* C14: enrich-features given no features returns an empty enrichedFeatures and
\* calls no model; enrich-fixes given no fixes, no performance and no maintenance
\* commits returns three empty arrays and calls no model.
C14_NoCallOnEmptyInput ==
    [][/\ (Ran("enrich-features") /\ data.features = <<>>) =>
              /\ NoNewCall
              /\ br'["enrich-features"] = Success([enrichedFeatures |-> <<>>])
       /\ (Ran("enrich-fixes") /\ data.fixes = <<>> /\ data.performance = <<>>
              /\ data.maintenance = <<>>) =>
              /\ NoNewCall
              /\ br'["enrich-fixes"] =
                    Success([enrichedFixes |-> <<>>, enrichedPerformance |-> <<>>,
                             enrichedMaintenance |-> <<>>])]_vars

\* C14 witness: with features only in the batch, enrich-fixes has returned its
\* three empty arrays and only enrich-features has called the model
C14_Witness_FixesSkipped ==
    /\ pc = "parallel"
    /\ data.features # <<>>
    /\ fixesAll(data) = <<>>
    /\ br["enrich-fixes"] = Success(NoFixes)
    /\ br["enrich-features"].status = "success"
    /\ llmCalls["enrich-fixes"] = 0
    /\ llmCalls["enrich-features"] = 1

AtGate == pc \in {"gate", "branch"}

\* C15: a draft at the gate has no suggestions exactly when it is complete; so the
\* refiner is not run on a draft without suggestions, and pass-through is not run
\* on a draft that has some.
C15_SuggestionsIffIncomplete ==
    AtGate =>
        /\ data.suggestions = <<>> <=> data.isComplete
        /\ (pc = "branch" /\ Has(br, "refine-notes")) => data.suggestions # <<>>
        /\ (pc = "branch" /\ Has(br, "pass-through")) => data.suggestions = <<>>

\* the state C15 fails in: the refiner has run on a draft that has no suggestions
C15_Probe_RefinedWithoutSuggestions ==
    /\ pc = "branch"
    /\ executed["refine-notes"] = 1
    /\ ~data.isComplete
    /\ data.suggestions = <<>>

\* refs a query could have had in place of its own
OtherRefs == {DefaultFrom, HexB}

WithRefs(batch, f, t) == [batch EXCEPT !.fromRef = f, !.toRef = t]

\* nothing the enrichment steps send to the model or decide depends on the refs
RefsUnread(batch) ==
    \A f \in OtherRefs, t \in OtherRefs :
        /\ enrichFeaturesPrompt(WithRefs(batch, f, t)) = enrichFeaturesPrompt(batch)
        /\ enrichFixesPrompt(WithRefs(batch, f, t)) = enrichFixesPrompt(batch)
        /\ featuresCallsModel(WithRefs(batch, f, t)) = featuresCallsModel(batch)
        /\ fixesCallsModel(WithRefs(batch, f, t)) = fixesCallsModel(batch)

NoRefsIn(object) == ~Has(object, "fromRef") /\ ~Has(object, "toRef")

\* C16: the classifier is asked about REPO_COMMITS in every run, whatever range the
\* query names; the parsed fromRef and toRef are copied into the categorizer's
\* output, the enrichment steps do not read them, no step after the fork is handed
\* them, and the result of the run has no field for them.
C16_RangeIgnored ==
    /\ llmCalls["classify"] > 0 => classifierRequest = REPO_COMMITS
    /\ pc = "parallel" =>
          /\ LET parsed == parseQuery(init.query)
             IN data.fromRef = parsed.fromRef /\ data.toRef = parsed.toRef
          /\ RefsUnread(data)
          /\ \A id \in DOMAIN br : NoRefsIn(br[id].output)
    /\ pc \in {"draft", "gate", "branch", "finalize", "done"} =>
          /\ NoRefsIn(data)
          /\ NoRefsIn(init)
          /\ pc \in {"draft", "finalize"} => \A id \in DOMAIN data : NoRefsIn(data[id])
          /\ pc = "draft" => NoRefsIn(draftPrompt(init, data))
    /\ pc = "done" => DOMAIN data = {"result", "version", "refined"}

\* C16 witness: the run of the query that names 9F1..9F1 is over, and its classifier
\* was asked about the same twelve commits
C16_Witness_SameRequest ==
    /\ pc = "done"
    /\ parseQuery(init.query).fromRef = HexB
    /\ parseQuery(init.query).toRef = HexB
    /\ classifierRequest = REPO_COMMITS
    /\ Len(classifierRequest) = 12

====
